---- MODULE Spec2Model ----
(***************************************************************************)
(* The polling loop of the MP3Mat sketch (MP3Mat.ino): the two voltage     *)
(* divider selectors, the two track switches, the track sequencing, the    *)
(* idle timer and the power-down sleep with its pin-change wake            *)
(* interrupts.                                                             *)
(*                                                                         *)
(* One pass of loop() is split where the claims look at it: the selector   *)
(* section (SelectorStep), the switch section (SwitchStep), the sleep      *)
(* decision (PowerStep), the three steps of sleepNow() (SleepArm,          *)
(* SleepHalt, SleepWake) and adjustVolume() (VolumeStep).  The environment *)
(* is the clock (Tick, TimerTick), the end of a track (TrackEnds) and a    *)
(* change on an armed pin (EarlyInterrupt, WakeInterrupt).                 *)
(***************************************************************************)
EXTENDS Integers, Sequences, FiniteSets, TLC

\* ------------------------------------------------------------ constants

BUTTONDELAY == 1000
MAX_NUM_FILES == 20
SLEEP_DELAY == 20000

\* ------------------------------------------------------------ bounds

\* The clock stops advancing at MaxMillis.
MaxMillis == 40010
\* The time that passes between two passes when any does: more than
\* BUTTONDELAY, and half of SLEEP_DELAY.
Wait == 10000

\* Raw samples of the directory selector, one or two in each band used.
DirSamples == {1000, 800, 600, 400, 300}
\* Raw samples of the volume selector.
VolSamples == {1000, 300}
\* What MP3player.currentPosition() can answer, in ms.
Positions == {0, 3000}

\* ------------------------------------------------------------ the card

NoFile == <<>>
\* A name that is not one of filename's rows: what playMP3 is handed when
\* filename is read before its first row, in the case that it opens.
StrayFile == <<0, 0>>
StrayReads == {NoFile, StrayFile}

\* The directories readRootDirnames() registered in dirname[].
Registered == {1, 2, 4}

\* The files of each directory, in the order openNext() returns them:
\* "mp3" is a track playMP3 accepts, "bad" a file it rejects, "_" a file
\* whose name starts with an underscore.  Directory 4 holds one file more
\* than filename has rows.
SdCard ==
    [p \in 1..5 |->
        CASE p = 1 -> <<"mp3", "mp3">>
          [] p = 2 -> <<"bad", "_", "mp3">>
          [] p = 4 -> [k \in 1..(MAX_NUM_FILES + 1) |-> "mp3"]
          [] OTHER -> <<>>]

Playable(name) ==
    \/ name = StrayFile
    \/ /\ name # NoFile
       /\ name # StrayFile
       /\ SdCard[name[1]][name[2]] = "mp3"

\* ------------------------------------------------------------ decoder

\* The test of each branch of buttonPushed(), by the position it returns.
bandTest(k, v) ==
    CASE k = 1 -> v >= 751 /\ v <= 980
      [] k = 2 -> v >= 580 /\ v <= 750
      [] k = 3 -> v >= 380 /\ v <= 560
      [] k = 4 -> v >= 241 /\ v <= 360
      [] k = 5 -> v >= 0 /\ v <= 240

\* buttonPushed() with the positions counted from the lowest band.
buttonPushedAscending(v) ==
    IF bandTest(1, v) THEN 5
    ELSE IF bandTest(2, v) THEN 4
    ELSE IF bandTest(3, v) THEN 3
    ELSE IF bandTest(4, v) THEN 2
    ELSE IF bandTest(5, v) THEN 1
    ELSE 0

buttonPushed(v) ==
    IF bandTest(1, v) THEN 1
    ELSE IF bandTest(2, v) THEN 2
    ELSE IF bandTest(3, v) THEN 3
    ELSE IF bandTest(4, v) THEN 4
    ELSE IF bandTest(5, v) THEN 5
    ELSE 0

\* ------------------------------------------------------------ clock

\* ElapsedOver() with `>=` for `>`.
ElapsedOverOrEqual(now, since, limit) ==
    IF now >= since THEN now - since >= limit ELSE TRUE

\* millis() - since > limit, computed in unsigned long: when since is ahead
\* of now (the forced first check) the difference wraps to nearly 2^32.
ElapsedOver(now, since, limit) ==
    IF now >= since THEN now - since > limit ELSE TRUE

\* millis() - since >= limit, in unsigned long.
ElapsedAtLeast(now, since, limit) ==
    IF now >= since THEN now - since >= limit ELSE TRUE

\* ------------------------------------------------------------ state

VARIABLES
    pc,                        \* where the pass is
    millis,                    \* the clock millis() reads
    buttonLastChecked,
    sleepCounter,
    sampledAt,                 \* when the selectors were sampled last, or -1
    last_dir,
    last_file,
    filename,                  \* the rows that hold a name, in order;
                               \* the rows after them are zeroed
    playing,                   \* the file the chip plays, or NoFile
    result,                    \* what the last playMP3 answered
    volume,
    target_vol,
    target_vol_range,
    nextTrackSwitchOn,
    previousTrackSwitchOn,
    nextTrackSwitchState,      \* the levels the last pass read
    previousTrackSwitchState,
    detectedInteraction,
    armed,                     \* the pin-change interrupts are enabled
    missedEdge,                \* an armed pin changed before the halt
    events,                    \* what this pass has seen so far
    dirPos,                    \* the directory position this pass sampled
    val,                       \* the raw sample buttonPushed() read last
    buttNum,                   \* what it returned (the volume position)
    requested,                 \* the playMP3 calls of the section just run
    nextPressActed,            \* the running press already ran its action
    prevPressActed

vars ==
    <<pc, millis, buttonLastChecked, sleepCounter, sampledAt, last_dir,
      last_file, filename, playing, result, volume, target_vol,
      target_vol_range,
      nextTrackSwitchOn, previousTrackSwitchOn, nextTrackSwitchState,
      previousTrackSwitchState, detectedInteraction, armed, missedEdge,
      events, dirPos, val, buttNum, requested, nextPressActed,
      prevPressActed>>

clockVars == <<millis, buttonLastChecked, sleepCounter, sampledAt>>
trackVars == <<last_dir, last_file, filename, playing, result>>
volumeVars == <<volume, target_vol, target_vol_range>>
switchVars ==
    <<nextTrackSwitchOn, previousTrackSwitchOn, nextTrackSwitchState,
      previousTrackSwitchState, nextPressActed, prevPressActed>>
passVars == <<detectedInteraction, events, dirPos, val, buttNum, requested>>
sleepVars == <<armed, missedEdge>>

\* The globals the track helpers read and write, as one value.
Globals ==
    [last_dir |-> last_dir, last_file |-> last_file, filename |-> filename,
     playing |-> playing, result |-> result,
     detectedInteraction |-> detectedInteraction,
     target_vol |-> target_vol, target_vol_range |-> target_vol_range,
     nextTrackSwitchOn |-> nextTrackSwitchOn,
     previousTrackSwitchOn |-> previousTrackSwitchOn,
     requested |-> <<>>]

\* ------------------------------------------------------------ helpers

isPlaying(g) == g.playing # NoFile

stopTrack(g) == [g EXCEPT !.playing = NoFile]

stopPlayback(g) == stopTrack(g)

\* MP3player.playMP3(name): refused while a track plays, refused when the
\* file does not open.
playMP3(g, name) ==
    IF isPlaying(g) THEN [g EXCEPT !.result = "Busy"]
    ELSE IF Playable(name) THEN [g EXCEPT !.playing = name, !.result = "Ok"]
    ELSE [g EXCEPT !.result = "Error"]

\* Row fileNum of the table: a name, or NoFile for a zeroed row.
Row(rows, fileNum) ==
    IF fileNum <= Len(rows) THEN rows[fileNum] ELSE NoFile

\* filename[fileNum - 1]; fileNum = 0 reads before the first row, and
\* `stray` is what lies there.
playMp3File(g, fileNum, stray) ==
    LET name == IF fileNum \in 1..MAX_NUM_FILES
                THEN Row(g.filename, fileNum) ELSE stray
        h == playMP3(g, name)
        k == [h EXCEPT !.requested =
                 Append(g.requested,
                        [fileNum |-> fileNum, busy |-> isPlaying(g),
                         result |-> h.result])]
    IN IF k.result = "Ok" THEN [k EXCEPT !.last_file = fileNum] ELSE k

\* filename[i] != "" compares the address of a row with the address of
\* a string literal: two different objects, so it is always true.
RowIsNotLiteral(i) == TRUE

\* playNextTrack() without line 417.
playNextTrackNoStop(g, stray) ==
    IF g.last_file + 1 <= MAX_NUM_FILES /\ RowIsNotLiteral(g.last_file)
    THEN playMp3File([g EXCEPT !.last_file = g.last_file + 1],
                     g.last_file + 1, stray)
    ELSE g

playNextTrack(g, stray) ==
    IF g.last_file + 1 <= MAX_NUM_FILES /\ RowIsNotLiteral(g.last_file)
    THEN playMp3File([stopTrack(g) EXCEPT !.last_file = g.last_file + 1],
                     g.last_file + 1, stray)
    ELSE g

playPreviousTrack(g, stray) ==
    IF g.last_file - 1 >= 0 /\ RowIsNotLiteral(g.last_file - 2)
    THEN playMp3File([stopTrack(g) EXCEPT !.last_file = g.last_file - 1],
                     g.last_file - 1, stray)
    ELSE g

\* !dirname[buttNum - 1] tests the address of a row of the array dirname,
\* which is never null: it is always false.
NoDirname(i) == FALSE

\* The names readFilenames() copies, in order: every file of the directory
\* whose name does not start with an underscore.
Copied(dirNum) ==
    IF dirNum \in Registered
    THEN SelectSeq([k \in 1..Len(SdCard[dirNum]) |-> <<dirNum, k>>],
                   LAMBDA n : SdCard[n[1]][n[2]] # "_")
    ELSE <<>>

\* readFilenames() with the row of dirname[] taken one too far.
readFilenamesNextRow(g, dirNum, stray) ==
    playMp3File([stopPlayback(g) EXCEPT !.filename = Copied(dirNum + 1),
                                        !.last_file = 0],
                1, stray)

readFilenames(g, dirNum, stray) ==
    playMp3File([stopPlayback(g) EXCEPT !.filename = Copied(dirNum),
                                        !.last_file = 0],
                1, stray)

\* setTargetVolumeByRange() with map(val, 1, 5, 0, 60).
setTargetVolumeFromOne(g, p) ==
    LET mapped == ((p - 1) * 60) \div 4
        held == IF mapped < 0 THEN 0 ELSE IF mapped > 60 THEN 60 ELSE mapped
    IN [g EXCEPT !.target_vol = held]

\* map(val, 0, 5, 0, 60) in integer arithmetic, then constrain(.., 0, 60).
setTargetVolumeByRange(g, p) ==
    LET mapped == (p * 60) \div 5
        held == IF mapped < 0 THEN 0 ELSE IF mapped > 60 THEN 60 ELSE mapped
    IN [g EXCEPT !.target_vol = held]

\* ------------------------------------------------------------ sections

\* checkDirectory() without line 308: position 0 leaves the track index.
checkDirectoryKeepsIndex(g, b, stray) ==
    IF b # 0
    THEN IF b # g.last_dir
         THEN LET h == [g EXCEPT !.last_dir = b,
                                 !.detectedInteraction = TRUE]
              IN IF NoDirname(b - 1) THEN h
                 ELSE readFilenames(
                         IF isPlaying(h) THEN stopPlayback(h) ELSE h,
                         b, stray)
         ELSE IF ~isPlaying(g) THEN playNextTrack(g, stray) ELSE g
    ELSE LET h == IF isPlaying(g)
                  THEN [stopPlayback(g) EXCEPT !.detectedInteraction = TRUE]
                  ELSE g
         IN [h EXCEPT !.last_dir = 0]

\* Lines 252-309: the directory selector read position b.
checkDirectory(g, b, stray) ==
    IF b # 0
    THEN IF b # g.last_dir
         THEN LET h == [g EXCEPT !.last_dir = b,
                                 !.detectedInteraction = TRUE]
              IN IF NoDirname(b - 1) THEN h
                 ELSE readFilenames(
                         IF isPlaying(h) THEN stopPlayback(h) ELSE h,
                         b, stray)
         ELSE IF ~isPlaying(g) THEN playNextTrack(g, stray) ELSE g
    ELSE LET h == IF isPlaying(g)
                  THEN [stopPlayback(g) EXCEPT !.detectedInteraction = TRUE]
                  ELSE g
         IN [h EXCEPT !.last_dir = 0, !.last_file = 0]

\* Lines 314-331: the volume selector read position b.
checkVolume(g, b) ==
    IF b # 0 /\ b # g.target_vol_range
    THEN [setTargetVolumeByRange([g EXCEPT !.target_vol_range = b], b)
            EXCEPT !.detectedInteraction = TRUE]
    ELSE g

\* checkPrevious() with `>` for `>=` at line 346.
checkPreviousStrictlyOver(g, level, position, stray) ==
    IF g.last_dir > 0 /\ level = "LOW" /\ ~g.previousTrackSwitchOn
    THEN [(IF position > 3000
           THEN playMp3File(stopPlayback(g), g.last_file, stray)
           ELSE playPreviousTrack(g, stray))
            EXCEPT !.previousTrackSwitchOn = TRUE]
    ELSE [g EXCEPT !.previousTrackSwitchOn = FALSE]

\* Lines 344-358: the PREVIOUS switch read `level`; `position` is what
\* currentPosition() answers.
checkPrevious(g, level, position, stray) ==
    IF g.last_dir > 0 /\ level = "LOW" /\ ~g.previousTrackSwitchOn
    THEN [(IF position >= 3000
           THEN playMp3File(stopPlayback(g), g.last_file, stray)
           ELSE playPreviousTrack(g, stray))
            EXCEPT !.previousTrackSwitchOn = TRUE]
    ELSE [g EXCEPT !.previousTrackSwitchOn = FALSE]

\* checkNext() without the test of last_dir at line 361.
checkNextAnyDirectory(g, level, stray) ==
    LET h == IF level = "LOW" /\ ~g.nextTrackSwitchOn
             THEN [playNextTrack(g, stray) EXCEPT !.nextTrackSwitchOn = TRUE]
             ELSE [g EXCEPT !.nextTrackSwitchOn = FALSE]
    IN IF level = "LOW" THEN [h EXCEPT !.detectedInteraction = TRUE] ELSE h

\* Lines 361-372: the NEXT switch read `level`.
checkNext(g, level, stray) ==
    LET h == IF g.last_dir > 0 /\ level = "LOW" /\ ~g.nextTrackSwitchOn
             THEN [playNextTrack(g, stray) EXCEPT !.nextTrackSwitchOn = TRUE]
             ELSE [g EXCEPT !.nextTrackSwitchOn = FALSE]
    IN IF level = "LOW" THEN [h EXCEPT !.detectedInteraction = TRUE] ELSE h

\* ------------------------------------------------------------ Init

StartUp ==
    /\ pc = "loop"
    /\ millis = 2
    /\ buttonLastChecked = 0
    /\ sleepCounter = 0
    /\ sampledAt = -1
    /\ last_dir = 0
    /\ last_file = 0
    /\ filename = <<>>
    /\ playing = NoFile
    /\ result = "Ok"
    /\ volume = 50
    /\ target_vol = 50
    /\ target_vol_range = 255
    /\ nextTrackSwitchOn = FALSE
    /\ previousTrackSwitchOn = FALSE
    /\ nextTrackSwitchState = "HIGH"
    /\ previousTrackSwitchState = "HIGH"
    /\ detectedInteraction = FALSE
    /\ armed = FALSE
    /\ missedEdge = FALSE
    /\ events = {}
    /\ dirPos = -1
    /\ requested = <<>>
    /\ nextPressActed = FALSE
    /\ prevPressActed = FALSE

\* No sample has been read yet.
Init ==
    /\ StartUp
    /\ val = -1
    /\ buttNum = -1

\* ------------------------------------------------------------ the pass

\* Line 241-242: the time the selectors were last checked, as line 247
\* reads it.
LastChecked ==
    IF buttonLastChecked = 0 THEN millis + BUTTONDELAY ELSE buttonLastChecked

\* Line 247: the selectors are sampled in this pass.
SelectorsDue == ElapsedOver(millis, LastChecked, BUTTONDELAY)

\* What the selector section of this pass saw: dirVal and volVal are the
\* two raw samples.
SelectorEvents(dirVal, volVal) ==
    LET d == buttonPushed(dirVal)
        v == buttonPushed(volVal)
    IN {"sampled"}
       \cup (IF playing # NoFile THEN {"wasPlaying"} ELSE {})
       \cup (IF d # 0 /\ d # last_dir THEN {"dirTrigger"} ELSE {})
       \cup (IF d # 0 /\ d = last_dir THEN {"dirSame"} ELSE {})
       \cup (IF d = 0 THEN {"dirZero"} ELSE {})
       \cup (IF v # 0 /\ v # target_vol_range THEN {"volTrigger"} ELSE {})

\* Lines 248-333: the selector section, the two selectors reading dirVal
\* and volVal.  A write past the last row of filename ends the run: what it
\* destroys depends on what the linker placed behind the table.
SelectorPass(dirVal, volVal) ==
    LET g == checkVolume(
                checkDirectory(
                   [Globals EXCEPT !.detectedInteraction = FALSE],
                   buttonPushed(dirVal), NoFile),
                buttonPushed(volVal))
    IN /\ last_dir' = g.last_dir
       /\ last_file' = g.last_file
       /\ filename' = g.filename
       /\ playing' = g.playing
       /\ result' = g.result
       /\ detectedInteraction' = g.detectedInteraction
       /\ target_vol' = g.target_vol
       /\ target_vol_range' = g.target_vol_range
       /\ events' = SelectorEvents(dirVal, volVal)
       /\ dirPos' = buttonPushed(dirVal)
       /\ val' = volVal
       /\ buttNum' = buttonPushed(volVal)
       /\ requested' = g.requested
       /\ pc' = IF Len(g.filename) > MAX_NUM_FILES
                THEN "overrun" ELSE "switches"
       /\ buttonLastChecked' = millis
       /\ sampledAt' = millis
       /\ UNCHANGED <<millis, sleepCounter, volume, switchVars, sleepVars>>

\* Lines 239-334, in a pass that samples the selectors.
SelectorStep ==
    /\ pc = "loop"
    /\ SelectorsDue
    /\ \E dirVal \in DirSamples, volVal \in VolSamples :
         SelectorPass(dirVal, volVal)

\* Lines 239-247, in a pass that does not sample them.
SelectorSkip ==
    /\ pc = "loop"
    /\ ~SelectorsDue
    /\ buttonLastChecked' = LastChecked
    /\ detectedInteraction' = FALSE
    /\ events' = {}
    /\ dirPos' = -1
    /\ pc' = "switches"
    /\ UNCHANGED <<millis, sleepCounter, sampledAt, trackVars, volumeVars,
                   switchVars, sleepVars, val, buttNum, requested>>

\* What the switch section of this pass saw.
SwitchEvents(prevLevel, nextLevel, position) ==
    {"switchesRead"}
    \cup (IF prevLevel = "LOW" /\ previousTrackSwitchState = "HIGH"
          THEN {"prevEdge"} ELSE {})
    \cup (IF nextLevel = "LOW" /\ nextTrackSwitchState = "HIGH"
          THEN {"nextEdge"} ELSE {})
    \cup (IF last_dir > 0 /\ prevLevel = "LOW" /\ ~previousTrackSwitchOn
             /\ position >= 3000
          THEN {"longPlayed"} ELSE {})

\* Lines 339-372.  currentPosition() is read only when the PREVIOUS switch
\* fires, and filename is read before its first row only then.
SwitchPass(prevLevel, nextLevel, position, stray) ==
    LET g == checkNext(checkPrevious(Globals, prevLevel, position, stray),
                       nextLevel, stray)
    IN /\ previousTrackSwitchOn' = g.previousTrackSwitchOn
       /\ nextTrackSwitchOn' = g.nextTrackSwitchOn
       /\ previousTrackSwitchState' = prevLevel
       /\ nextTrackSwitchState' = nextLevel
       /\ last_file' = g.last_file
       /\ playing' = g.playing
       /\ result' = g.result
       /\ detectedInteraction' = g.detectedInteraction
       /\ prevPressActed' =
            (prevLevel = "LOW" /\ (prevPressActed \/ g.previousTrackSwitchOn))
       /\ nextPressActed' =
            (nextLevel = "LOW" /\ (nextPressActed \/ g.nextTrackSwitchOn))
       /\ events' = events \cup SwitchEvents(prevLevel, nextLevel, position)
       /\ requested' = g.requested
       /\ pc' = "power"
       /\ UNCHANGED <<clockVars, last_dir, filename, volumeVars, sleepVars,
                      dirPos, val, buttNum>>

SwitchStep ==
    /\ pc = "switches"
    /\ \E prevLevel \in {"LOW", "HIGH"}, nextLevel \in {"LOW", "HIGH"} :
       \E position \in IF last_dir > 0 /\ prevLevel = "LOW"
                           /\ ~previousTrackSwitchOn
                       THEN Positions ELSE {0} :
       \E stray \in IF last_dir > 0 /\ prevLevel = "LOW"
                       /\ ~previousTrackSwitchOn /\ last_file <= 1
                    THEN StrayReads ELSE {NoFile} :
         SwitchPass(prevLevel, nextLevel, position, stray)

\* PowerStep without the test of detectedInteraction.
PowerStepIgnoresFlag ==
    /\ pc = "power"
    /\ IF playing = NoFile
       THEN IF ElapsedAtLeast(millis, sleepCounter, SLEEP_DELAY)
            THEN sleepCounter' = millis /\ pc' = "sleepNow"
            ELSE sleepCounter' = sleepCounter /\ pc' = "volume"
       ELSE sleepCounter' = millis /\ pc' = "volume"
    /\ UNCHANGED <<millis, buttonLastChecked, sampledAt, trackVars,
                   volumeVars, switchVars, passVars, sleepVars>>

\* PowerStep without line 384: the timer is left as it is on the way to
\* sleep.
PowerStepKeepsTimer ==
    /\ pc = "power"
    /\ IF ~detectedInteraction /\ playing = NoFile
       THEN IF ElapsedAtLeast(millis, sleepCounter, SLEEP_DELAY)
            THEN sleepCounter' = sleepCounter /\ pc' = "sleepNow"
            ELSE sleepCounter' = sleepCounter /\ pc' = "volume"
       ELSE sleepCounter' = millis /\ pc' = "volume"
    /\ UNCHANGED <<millis, buttonLastChecked, sampledAt, trackVars,
                   volumeVars, switchVars, passVars, sleepVars>>

\* Lines 377-390.
PowerStep ==
    /\ pc = "power"
    /\ IF ~detectedInteraction /\ playing = NoFile
       THEN IF ElapsedAtLeast(millis, sleepCounter, SLEEP_DELAY)
            THEN sleepCounter' = millis /\ pc' = "sleepNow"
            ELSE sleepCounter' = sleepCounter /\ pc' = "volume"
       ELSE sleepCounter' = millis /\ pc' = "volume"
    /\ UNCHANGED <<millis, buttonLastChecked, sampledAt, trackVars,
                   volumeVars, switchVars, passVars, sleepVars>>

\* Lines 740-749: sleepNow() up to and with myAttachInterrupt().
SleepArm ==
    /\ pc = "sleepNow"
    /\ armed' = TRUE
    /\ missedEdge' = FALSE
    /\ pc' = "sleep_mode"
    /\ UNCHANGED <<clockVars, trackVars, volumeVars, switchVars, passVars>>

\* Line 751: sleep_mode() halts the processor.
SleepHalt ==
    /\ pc = "sleep_mode"
    /\ pc' = "asleep"
    /\ UNCHANGED <<clockVars, trackVars, volumeVars, switchVars, passVars,
                   sleepVars>>

\* SleepWake without myDetachInterrupt().
SleepWakeStaysArmed ==
    /\ pc = "woken"
    /\ pc' = "volume"
    /\ UNCHANGED <<clockVars, trackVars, volumeVars, switchVars, passVars,
                   sleepVars>>

\* Lines 754-756: sleep_mode() has returned; myDetachInterrupt().
SleepWake ==
    /\ pc = "woken"
    /\ armed' = FALSE
    /\ pc' = "volume"
    /\ UNCHANGED <<clockVars, trackVars, volumeVars, switchVars, passVars,
                   missedEdge>>

\* adjustVolume() without the test of line 480.
adjustVolumeUntested(vol, target) ==
    IF vol < target THEN (vol + 1) % 256
    ELSE (vol - 1) % 256

\* Lines 472-490, called at line 396; volume is a byte.  The pass ends and
\* its locals with it.
adjustVolume(vol, target) ==
    IF vol < target THEN (vol + 1) % 256
    ELSE IF vol > target THEN (vol - 1) % 256
    ELSE vol

VolumeStep ==
    /\ pc = "volume"
    /\ volume' = adjustVolume(volume, target_vol)
    /\ detectedInteraction' = FALSE
    /\ events' = {}
    /\ dirPos' = -1
    /\ val' = -1
    /\ buttNum' = -1
    /\ requested' = <<>>
    /\ pc' = "loop"
    /\ UNCHANGED <<clockVars, trackVars, target_vol, target_vol_range,
                   switchVars, sleepVars>>

\* ------------------------------------------------------------ environment

\* Time passes between two passes.
Tick ==
    /\ pc = "loop"
    /\ millis + Wait <= MaxMillis
    /\ millis' = millis + Wait
    /\ UNCHANGED <<pc, buttonLastChecked, sleepCounter, sampledAt,
                   trackVars, volumeVars, switchVars, passVars, sleepVars>>

\* The timer interrupt adds a millisecond between the read of millis() at
\* line 384 and the halt.  (In SLEEP_MODE_PWR_DOWN the timer is stopped:
\* the clock does not advance while the processor is asleep.)
TimerTick ==
    /\ pc = "sleep_mode"
    /\ millis = sleepCounter
    /\ millis' = millis + 1
    /\ UNCHANGED <<pc, buttonLastChecked, sleepCounter, sampledAt,
                   trackVars, volumeVars, switchVars, passVars, sleepVars>>

\* The track that plays comes to its end.
TrackEnds ==
    /\ pc \in {"loop", "switches", "power"}
    /\ playing # NoFile
    /\ playing' = NoFile
    /\ UNCHANGED <<pc, clockVars, last_dir, last_file, filename, result,
                   volumeVars, switchVars, passVars, sleepVars>>

\* ISR(PCINT1_vect) / ISR(PCINT2_vect): an armed pin changes before the
\* processor has halted; the handler runs and returns.
EarlyInterrupt ==
    /\ pc = "sleep_mode"
    /\ armed
    /\ ~missedEdge
    /\ missedEdge' = TRUE
    /\ UNCHANGED <<pc, clockVars, trackVars, volumeVars, switchVars,
                   passVars, armed>>

\* An armed pin changes while the processor is halted: it wakes.
WakeInterrupt ==
    /\ pc = "asleep"
    /\ armed
    /\ pc' = "woken"
    /\ UNCHANGED <<clockVars, trackVars, volumeVars, switchVars, passVars,
                   sleepVars>>

Next ==
    \/ SelectorStep
    \/ SelectorSkip
    \/ SwitchStep
    \/ PowerStep
    \/ SleepArm
    \/ SleepHalt
    \/ SleepWake
    \/ VolumeStep
    \/ Tick
    \/ TimerTick
    \/ TrackEnds
    \/ EarlyInterrupt
    \/ WakeInterrupt

Spec == Init /\ [][Next]_vars

\* ------------------------------------------------------------ the volume

\* A raw sample in each band of the decoder, and one of the open selector.
BandSamples == {1000, 800, 600, 400, 300, 100}
\* The raw sample of a selector nobody stands on.
OpenSample == 1000

\* The selector section while nobody stands on the directory selector and
\* the volume selector is anywhere.
VolumeSelectorStep ==
    /\ pc = "loop"
    /\ SelectorsDue
    /\ \E volVal \in BandSamples : SelectorPass(OpenSample, volVal)

\* The switch section while no switch is pressed.
IdleSwitchStep ==
    /\ pc = "switches"
    /\ SwitchPass("HIGH", "HIGH", 0, NoFile)

\* The loop of a mat on which only the volume selector is used.
VolumeNext ==
    \/ VolumeSelectorStep
    \/ SelectorSkip
    \/ IdleSwitchStep
    \/ PowerStep
    \/ SleepArm
    \/ SleepHalt
    \/ SleepWake
    \/ VolumeStep
    \/ Tick
    \/ WakeInterrupt

VolumeSpec == Init /\ [][VolumeNext]_vars

\* ------------------------------------------------------------ the interval

\* The clock of the short passes stops advancing at MaxShort.
MaxShort == 3010
\* The time between two passes around the selector interval: BUTTONDELAY
\* exactly, and one millisecond more.
ShortWaits == {BUTTONDELAY, BUTTONDELAY + 1}

\* BUTTONDELAY or a millisecond more passes between two passes.
ShortTick ==
    /\ pc = "loop"
    /\ \E w \in ShortWaits :
         /\ millis + w <= MaxShort
         /\ millis' = millis + w
    /\ UNCHANGED <<pc, buttonLastChecked, sleepCounter, sampledAt,
                   trackVars, volumeVars, switchVars, passVars, sleepVars>>

\* The loop in its first seconds, passes following each other at about the
\* selector interval: too early for sleep.
IntervalNext ==
    \/ SelectorStep
    \/ SelectorSkip
    \/ SwitchStep
    \/ PowerStep
    \/ VolumeStep
    \/ ShortTick
    \/ TrackEnds

IntervalSpec == Init /\ [][IntervalNext]_vars

\* ------------------------------------------------------------ the decoder

\* What analogRead() can return: the converter has 10 bits.
Samples == 0..1023

\* Any raw sample is about to be decoded.
DecoderInit ==
    /\ StartUp
    /\ val \in Samples
    /\ buttNum = -1

\* buttonPushed() decodes the sample.
DecodeStep ==
    /\ buttNum = -1
    /\ buttNum' = buttonPushed(val)
    /\ UNCHANGED <<pc, clockVars, trackVars, volumeVars, switchVars,
                   detectedInteraction, events, dirPos, val, requested,
                   sleepVars>>

DecoderNext == DecodeStep

DecoderSpec == DecoderInit /\ [][DecoderNext]_vars

\* ------------------------------------------------------------ claims

\* The events of a pass that the idle-timer rule counts as interaction.
Triggers == {"dirTrigger", "volTrigger", "nextEdge", "prevEdge"}

\* The sleep decision of a pass is taken in this step.
PowerEvaluated == pc = "power" /\ pc' # "power"

\* The sleep decision of a pass sends the device to sleep in this step.
EntersSleep == pc = "power" /\ pc' = "sleepNow"

\* C1: for each switch, one continuous press (the level read LOW in pass
\* after pass) runs that switch's track action once: a switch section that
\* runs the action belongs to a press that has not run it yet.
C1_OneActionPerPress ==
    [][pc = "switches" /\ pc' = "power"
         => /\ (nextTrackSwitchOn' => ~nextPressActed)
            /\ (previousTrackSwitchOn' => ~prevPressActed)]_vars

\* C2: the device enters sleep in a pass only if that pass detected no
\* interaction, nothing plays at the sleep decision and at least SLEEP_DELAY
\* has passed since the idle timer was set; and the interaction flag the
\* decision reads is the one this pass computed: it is raised exactly when
\* this pass saw a new directory or volume trigger, stopped a track on
\* position 0, or read the NEXT switch LOW.
C2_SleepOnlyWhenIdle ==
    /\ [](pc = "power" =>
            (detectedInteraction <=>
                \/ events \cap {"dirTrigger", "volTrigger"} # {}
                \/ {"dirZero", "wasPlaying"} \subseteq events
                \/ nextTrackSwitchState = "LOW"))
    /\ [][EntersSleep
            => /\ ~detectedInteraction
               /\ events \cap {"dirTrigger", "volTrigger", "nextEdge"} = {}
               /\ playing = NoFile
               /\ millis - sleepCounter >= SLEEP_DELAY]_vars

\* C2 happens: a pass is about to enter sleep.
C2_Witness == pc = "sleepNow" /\ millis - sleepCounter = 0

\* C3: the wake interrupts are armed only between a sleep entry and the
\* matching wake, so every arming starts from the disarmed state and is
\* followed by a disarm before the next one; they are disarmed in every
\* state of the polling.
C3_ArmedOnlyInSleep ==
    armed <=> pc \in {"sleep_mode", "asleep", "woken"}

\* C3 happens: the device was armed, slept, and has woken.
C3_Witness == pc = "woken" /\ armed

\* The selector section of a pass ran in this step, and sampled.
SelectorsSampled == pc = "loop" /\ pc' # "loop" /\ "sampled" \in events'

\* C4 as claimed: a directory sample that reads position 0 stops the track,
\* clears the recorded position and the track index, and does not raise the
\* interaction flag, whether or not a track was playing.  (The volume
\* selector of the same pass is kept out of it.)
C4_ZeroNeverInteraction ==
    [][SelectorsSampled /\ dirPos' = 0 /\ "volTrigger" \notin events'
         => /\ playing' = NoFile
            /\ last_dir' = 0
            /\ last_file' = 0
            /\ ~detectedInteraction']_vars

\* C4 as the code has it: a directory sample that reads position 0 stops
\* the track and clears the recorded position and the track index; it
\* raises the interaction flag exactly when a track was playing when the
\* sample was taken, and the recorded timer is not touched by the sampling.
C4_ZeroInteractionOnlyOnStop ==
    [][SelectorsSampled /\ dirPos' = 0 /\ "volTrigger" \notin events'
         => /\ playing' = NoFile
            /\ last_dir' = 0
            /\ last_file' = 0
            /\ detectedInteraction' = (playing # NoFile)
            /\ sleepCounter' = sleepCounter]_vars

\* C4 happens: position 0 was sampled while a track played.
C4_Witness ==
    /\ pc = "switches"
    /\ dirPos = 0
    /\ "wasPlaying" \in events
    /\ "volTrigger" \notin events
    /\ detectedInteraction

\* C5: a pass with a new directory trigger, a new volume trigger or a press
\* edge on either switch, or with a track playing at the sleep decision,
\* sets the idle timer to the current time.
C5_ActivityResetsTimer ==
    [][PowerEvaluated /\ (events \cap Triggers # {} \/ playing # NoFile)
         => sleepCounter' = millis]_vars

\* C6 as claimed: when the sleep call has returned, the idle timer equals
\* the current time.
C6_TimerIsNowOnWake == pc = "woken" => sleepCounter = millis

\* C6 as the code has it: the idle timer is set to the current time when
\* the pass decides to sleep, before the sleep call, and is not written
\* again before that call has returned; the next sleep needs SLEEP_DELAY
\* on the clock after that.
C6_TimerIsSleepEntry ==
    [][/\ EntersSleep
            => sleepCounter' = millis /\ millis - sleepCounter >= SLEEP_DELAY
       /\ pc \in {"sleepNow", "sleep_mode", "asleep", "woken"}
            => sleepCounter' = sleepCounter]_vars

\* C6 happens: the sleep call has returned, a clock tick after the timer
\* was set.
C6_Witness == pc = "woken" /\ millis = sleepCounter + 1

\* C7, on one pass: a pass in which nothing played, with no new directory
\* or volume trigger and no new press edge, lets the idle time run on, and
\* enters sleep once SLEEP_DELAY has run.
C7_QuietPassSleeps ==
    [][(PowerEvaluated /\ playing = NoFile /\ "wasPlaying" \notin events
            /\ events \cap Triggers = {})
         => IF millis - sleepCounter >= SLEEP_DELAY
            THEN pc' = "sleepNow"
            ELSE sleepCounter' = sleepCounter]_vars

\* The tracks of directory p as the card holds them: the names of its
\* files, in order, without those that start with an underscore.
RECURSIVE TracksFrom(_, _)
TracksFrom(p, k) ==
    IF p \notin Registered \/ k > Len(SdCard[p]) THEN <<>>
    ELSE IF SdCard[p][k] = "_" THEN TracksFrom(p, k + 1)
    ELSE <<<<p, k>>>> \o TracksFrom(p, k + 1)

DirectoryTracks(p) == TracksFrom(p, 1)

\* The pass sampled a new nonzero directory position in this step.
NewDirectory == SelectorsSampled /\ "dirTrigger" \in events'

\* What C8 promises of a pass that loaded directory p.
FirstTrackStarted(p) ==
    /\ last_dir' = p
    /\ filename' = DirectoryTracks(p)
    /\ last_file' = 1
    /\ playing' = DirectoryTracks(p)[1]
    /\ result' = "Ok"

\* C8 as claimed: a pass that samples a new nonzero directory position,
\* for a directory that lists at least one track the audio service
\* accepts, ends with that position recorded, that directory's list
\* loaded, the track index on the first track and the first track playing.
C8_AnyTrackAccepted ==
    [][(pc = "volume" /\ pc' = "loop" /\ "dirTrigger" \in events
          /\ \E i \in 1..Len(DirectoryTracks(dirPos)) :
                Playable(DirectoryTracks(dirPos)[i]))
         => FirstTrackStarted(dirPos)]_vars

\* C8 as the code has it: when the directory's first track is one the
\* audio service accepts, the directory section of the pass ends with the
\* position recorded, that directory's list loaded, the track index on the
\* first track, the first track playing (the start was not refused as
\* busy, so what played before was stopped first) and the interaction flag
\* raised.
C8_FirstTrackAccepted ==
    [][(NewDirectory /\ DirectoryTracks(dirPos') # <<>>
          /\ Playable(DirectoryTracks(dirPos')[1]))
         => FirstTrackStarted(dirPos') /\ detectedInteraction']_vars

\* C8 happens: a new directory was sampled while another track played, and
\* its first track plays.
C8_Witness ==
    /\ pc = "switches"
    /\ {"dirTrigger", "wasPlaying"} \subseteq events
    /\ last_file = 1
    /\ playing = <<dirPos, 1>>

\* C9: a directory sample that reads the recorded nonzero position again
\* changes nothing while a track plays; when nothing plays it moves the
\* track index on by one while a further track is loaded, and never past
\* the number of tracks of the loaded list.
C9_AutoContinueBounded ==
    [][(SelectorsSampled /\ "dirSame" \in events')
         => IF playing # NoFile
            THEN /\ last_file' = last_file
                 /\ playing' = playing
                 /\ filename' = filename
            ELSE /\ last_file < Len(filename) => last_file' = last_file + 1
                 /\ last_file <= Len(filename) => last_file' <= Len(filename')
       ]_vars

\* C10: next on the last loaded track, by the NEXT switch or by a sample
\* that continues, leaves the track index and the playing track alone.
C10_NextOnLastIsNoOp ==
    [][(/\ last_file >= 1
        /\ last_file = Len(filename)
        /\ \/ /\ pc = "switches" /\ pc' = "power"
              /\ nextTrackSwitchOn' /\ ~previousTrackSwitchOn'
           \/ /\ SelectorsSampled /\ "dirSame" \in events'
              /\ playing = NoFile)
         => last_file' = last_file /\ playing' = playing]_vars

\* The switch section ran in this step and only the PREVIOUS switch ran its
\* action.
PreviousOnly ==
    /\ pc = "switches"
    /\ pc' = "power"
    /\ previousTrackSwitchOn'
    /\ ~nextTrackSwitchOn'

\* One request for track n, made while nothing played, with answer r.
OneRequest(n, r) == <<[fileNum |-> n, busy |-> FALSE, result |-> r]>>

\* What playMP3 answers for row n of the loaded list, asked while nothing
\* plays.
Answer(n) == IF Playable(Row(filename, n)) THEN "Ok" ELSE "Error"

OneStartAsked == pc \in {"loop", "switches"} /\ pc' # pc /\ Len(requested') = 1

\* C12: when the audio service rejects the start of a track (busy or
\* error), the track index after the operation that asked for it equals
\* the track index before it.
C12_RejectedKeepsIndex ==
    [][(OneStartAsked /\ requested'[1].result # "Ok")
         => last_file' = last_file]_vars

\* C13: a new nonzero directory position for which no directory was
\* registered at start-up asks the audio service for nothing, starts and
\* stops no track, and leaves the loaded track list and the track index as
\* they were.
C13_UnregisteredIsNoOp ==
    [][(NewDirectory /\ dirPos' \notin Registered)
         => /\ requested' = <<>>
            /\ playing' = playing
            /\ filename' = filename
            /\ last_file' = last_file]_vars

\* C14: every start is asked of the audio service while it plays nothing:
\* no request of a section was made with a track still playing, and the
\* service never answered that it was busy.
C14_StopBeforeStart ==
    /\ result # "Busy"
    /\ \A i \in 1..Len(requested) :
          ~requested[i].busy /\ requested[i].result # "Busy"

\* C14 happens: a new directory was sampled while a track played, and its
\* first track was asked for and plays.
C14_Witness ==
    /\ pc = "switches"
    /\ {"dirTrigger", "wasPlaying"} \subseteq events
    /\ requested = OneRequest(1, "Ok")
    /\ playing # NoFile

\* C15: the volume and the target volume lie in 0..60 in every state; a
\* step changes the volume by at most 1, only toward the target and never
\* past it, and a volume that equals the target stays as it is.
C15_VolumeRamps ==
    /\ [](volume \in 0..60 /\ target_vol \in 0..60)
    /\ [][/\ volume' - volume \in {-1, 0, 1}
          /\ volume < target_vol => volume' \in {volume, volume + 1}
          /\ volume > target_vol => volume' \in {volume, volume - 1}
          /\ volume = target_vol => volume' = volume
          /\ volume' # volume => pc = "volume"]_vars

\* C15 happens: the volume has climbed from 50 to the target 60 and rests
\* there.
C15_Witness == pc = "loop" /\ volume = 60 /\ target_vol = 60

\* C16: a sample of the volume selector that reads a position in 1..5
\* leaves the target volume on the line through (0, 0) and (5, 60) at that
\* position, within 0..60; a sample that reads position 0 leaves the target
\* volume as it was.
C16_TargetFromPosition ==
    [][SelectorsSampled
         => IF buttNum' \in 1..5
            THEN 5 * target_vol' = 60 * buttNum' /\ target_vol' \in 0..60
            ELSE buttNum' = 0 /\ target_vol' = target_vol]_vars

\* C16 happens: the volume selector was newly read on position 5.
C16_Witness ==
    /\ pc = "switches"
    /\ buttNum = 5
    /\ "volTrigger" \in events
    /\ target_vol = 60

\* The positions whose band holds raw sample v.
BandsOf(v) == {k \in 1..5 : bandTest(k, v)}

\* C17: every raw sample in 0..1023 decodes to one position in 0..5: the
\* position of the one band that holds it, or 0 when no band does, and no
\* sample lies in two bands; a larger raw sample never gives a larger
\* nonzero position; and every sample above all samples of band 1, the
\* all-open value 1023 with them, decodes to 0.
C17_DecoderBands ==
    buttNum # -1
      => /\ buttNum \in 0..5
         /\ Cardinality(BandsOf(val)) <= 1
         /\ BandsOf(val) = IF buttNum = 0 THEN {} ELSE {buttNum}
         /\ \A t \in Samples :
               (t > val /\ buttNum # 0 /\ buttonPushed(t) # 0)
                 => buttonPushed(t) <= buttNum
         /\ (\A t \in Samples : bandTest(1, t) => t < val) => buttNum = 0
         /\ val = 1023 => buttNum = 0

\* C17 happens: the largest sample of the highest band was decoded.
C17_Witness ==
    /\ buttNum = 1
    /\ bandTest(1, val)
    /\ ~bandTest(1, val + 1)

\* C18: every raw sample that has a sample of some band at or above it
\* decodes to a nonzero position: the bands leave no sample between them.
C18_BandsContiguous ==
    (buttNum # -1 /\ \E t \in Samples : t >= val /\ buttonPushed(t) # 0)
      => buttNum # 0

\* C19: the processor is never halted in sleep after an armed pin has
\* already changed since the arming: such a sleep would stay blocked until
\* a further change.
C19_NoLostWakeup == ~(pc = "asleep" /\ missedEdge)

\* C20: a directory load leaves at most MAX_NUM_FILES names written: no
\* name is written past the last row of the table.
C20_ListWithinTable == Len(filename) <= MAX_NUM_FILES

\* A pass runs its selector section in this step, sampling or not.
PassBegins == pc = "loop" /\ pc' # "loop"

\* Both selectors are sampled in the section this step runs.
BothSampled == "sampled" \in events' /\ dirPos' # -1 /\ buttNum' # -1

\* Neither selector is sampled in it.
NoneSampled == "sampled" \notin events' /\ dirPos' = -1 /\ buttNum' = -1

\* C21: the first pass after start-up samples both selectors; every later
\* pass samples both or none, and samples only when more than BUTTONDELAY
\* has passed since the selectors were sampled last; the two switches are
\* read in every pass, sampled or not, before its sleep decision.
C21_SampledAtInterval ==
    [][/\ (PassBegins /\ sampledAt = -1) => BothSampled
       /\ PassBegins => BothSampled \/ NoneSampled
       /\ (PassBegins /\ sampledAt # -1 /\ BothSampled)
            => millis - sampledAt > BUTTONDELAY
       /\ PowerEvaluated => "switchesRead" \in events]_vars

\* C21 happens: a pass that began exactly BUTTONDELAY after the last
\* sampling has not sampled the selectors and has read the switches.
C21_Witness ==
    /\ pc = "power"
    /\ "sampled" \notin events
    /\ "switchesRead" \in events
    /\ millis - sampledAt = BUTTONDELAY

\* C22: every start asked of the audio service names a track number in
\* 1..MAX_NUM_FILES, so filename is only read at one of its rows.
C22_TrackNumberInTable ==
    \A i \in 1..Len(requested) : requested[i].fileNum \in 1..MAX_NUM_FILES

\* C23: in every state between two steps, so at the end of every pass, a
\* track plays only while a directory is selected (the recorded position is
\* not 0); a section that asks the audio service for a track leaves a
\* directory selected; and a switch section that runs with no directory
\* selected asks for nothing, runs neither switch's action and leaves the
\* playback and the track index alone.
C23_PlayingNeedsDirectory ==
    /\ [](playing # NoFile => last_dir # 0)
    /\ [][/\ (PassBegins /\ requested' # <<>>) => last_dir' # 0
          /\ (pc = "switches" /\ pc' = "power" /\ last_dir = 0)
               => /\ requested' = <<>>
                  /\ ~nextTrackSwitchOn'
                  /\ ~previousTrackSwitchOn'
                  /\ playing' = playing
                  /\ last_file' = last_file]_vars

\* C23 happens: both switches were pressed with no directory selected, and
\* nothing was asked of the audio service.
C23_Witness ==
    /\ pc = "power"
    /\ last_dir = 0
    /\ {"nextEdge", "prevEdge"} \subseteq events
    /\ requested = <<>>
    /\ playing = NoFile

====
